---------------------------- MODULE Spec2Model ----------------------------
(***************************************************************************)
(* TradingViewMCP: the scanner pipeline of src/mcp_server/main.py.         *)
(*                                                                         *)
(* One upstream POST is decoded, normalised into value arrays, aligned to  *)
(* COLUMNS in a DataFrame, classified by categorize_recommendation, saved  *)
(* as tempDir/<date>.csv, read back and queried by the two tools           *)
(* get_stocks and get_recommendation_summary.                              *)
(*                                                                         *)
(* Numbers are kept in hundredths (0.5 is 50), which separates every       *)
(* threshold of RECOMMENDATION_THRESHOLDS.  A cell is a pair               *)
(* <<kind, payload>>: "num" (int or float), "bool", "str", "none" (Python  *)
(* None), "nan" (float NaN) and, inside a CSV file only, "empty".          *)
(***************************************************************************)
EXTENDS Integers, Sequences, FiniteSets, TLC

VARIABLES
    today,      \* datetime.now() as seen by strftime("%Y-%m-%d")
    dirExists,  \* whether TEMP_DIR exists
    files,      \* TEMP_DIR/<date>.csv for each date: a CSV table or NoFile
    stage,      \* how far the pipeline of the last tool call got
    requests,   \* upstream POSTs issued by the last tool call
    result,     \* what the last tool call returned
    input,      \* argument of the pure function under check
    output      \* its value

vars == <<today, dirExists, files, stage, requests, result, input, output>>

-----------------------------------------------------------------------------
(* constants.py                                                            *)

COLUMNS ==
    << "name", "description", "logoid", "update_mode", "type", "typespecs", "close", 
       "pricescale", "minmov", "fractional", "minmove2", "currency", "change", 
       "volume", "relative_volume_10d_calc", "market_cap_basic", 
       "fundamental_currency_code", "price_earnings_ttm", 
       "earnings_per_share_diluted_ttm", "earnings_per_share_diluted_yoy_growth_ttm", 
       "dividends_yield_current", "sector.tr", "market", "sector", 
       "recommendation_mark", "open", "high", "low", "VWAP", "premarket_open", 
       "premarket_high", "premarket_low", "premarket_close", "postmarket_open", 
       "postmarket_high", "postmarket_low", "postmarket_close", "SMA20", "SMA50", 
       "SMA100", "EMA20", "EMA50", "EMA200", "RSI", "MACD.macd", "MACD.signal", 
       "BB.upper", "BB.basis", "BB.lower", "ATR", "gap", "Pivot.M.Classic.R1", 
       "Pivot.M.Classic.S1", "Perf.W", "Perf.1M", "Perf.3M", "beta_1_year", 
       "relative_volume_10d_calc|1W", "average_volume_10d_calc", 
       "average_volume_30d_calc", "Candle.3BlackCrows", "Candle.3WhiteSoldiers", 
       "Candle.AbandonedBaby.Bearish", "Candle.AbandonedBaby.Bullish", "Candle.Doji", 
       "Candle.Doji.Dragonfly", "Candle.Doji.Gravestone", "Candle.Engulfing.Bearish", 
       "Candle.Engulfing.Bullish", "Candle.EveningStar", "Candle.Hammer", 
       "Candle.HangingMan", "Candle.Harami.Bearish", "Candle.Harami.Bullish", 
       "Candle.InvertedHammer", "Candle.Kicking.Bearish", "Candle.Kicking.Bullish", 
       "Candle.LongShadow.Lower", "Candle.LongShadow.Upper", "Candle.Marubozu.Black", 
       "Candle.Marubozu.White", "Candle.MorningStar", "Candle.ShootingStar", 
       "Candle.SpinningTop.Black", "Candle.SpinningTop.White", 
       "Candle.TriStar.Bearish", "Candle.TriStar.Bullish", "exchange", 
       "Recommend.All" >>

NumCols == Len(COLUMNS)

RecommendAll == "Recommend.All"

CategoryColumn == "recommendation_category"

\* Position of a column name in a column list (0 when absent).
ColumnIndex(columns, c) ==
    IF \E i \in 1..Len(columns) : columns[i] = c
    THEN CHOOSE i \in 1..Len(columns) : columns[i] = c
    ELSE 0

-----------------------------------------------------------------------------
(* main.py: constants                                                      *)

RECOMMENDATION_THRESHOLDS ==
    << [category |-> "strong_sell", min_val |-> -100, max_val |-> -50],
       [category |-> "sell",        min_val |-> -50,  max_val |-> -10],
       [category |-> "neutral",     min_val |-> -10,  max_val |-> 10],
       [category |-> "buy",         min_val |-> 10,   max_val |-> 50],
       [category |-> "strong_buy",  min_val |-> 50,   max_val |-> 100] >>

Categories == {"strong_sell", "sell", "neutral", "buy", "strong_buy", "unknown"}

\* Literal["buy", "strong_buy", "sell", "strong_sell", "neutral"]
TechSigs == {"buy", "strong_buy", "sell", "strong_sell", "neutral"}

-----------------------------------------------------------------------------
(* Cells                                                                   *)

None == <<"none", 0>>

NaN == <<"nan", 0>>

Num(v) == <<"num", v>>

Str(s) == <<"str", s>>

Bool(b) == <<"bool", b>>

Kind(value) == value[1]

\* isinstance(value, (int, float)): bool is a subclass of int, NaN is a float.
IsIntOrFloat(value) == Kind(value) \in {"num", "bool", "nan"}

\* pd.isna(value)
IsNa(value) == Kind(value) \in {"none", "nan"}

\* The number a comparison sees: True is 1 and False is 0.
NumericValue(value) == IF Kind(value) = "bool" THEN 100 * value[2] ELSE value[2]

-----------------------------------------------------------------------------
(* main.py: categorize_recommendation                                      *)

\* The bands of the dict that contain v: min_val <= value <= max_val.
Hits(v, thresholds) ==
    {i \in 1..Len(thresholds) :
        thresholds[i].min_val <= v /\ v <= thresholds[i].max_val}

Earliest(hits, thresholds) ==
    IF hits = {} THEN "unknown"
    ELSE thresholds[CHOOSE i \in hits : \A j \in hits : i <= j].category

Latest(hits, thresholds) ==
    IF hits = {} THEN "unknown"
    ELSE thresholds[CHOOSE i \in hits : \A j \in hits : i >= j].category

\* The loop over the dict in insertion order returns at the first band that
\* contains the value.
FirstMatch(v, thresholds) == Earliest(Hits(v, thresholds), thresholds)

\* A scan that keeps the last band containing the value.
LastMatch(v, thresholds) == Latest(Hits(v, thresholds), thresholds)

categorize_recommendation_last(value) ==
    IF ~IsIntOrFloat(value) \/ IsNa(value)
    THEN "unknown"
    ELSE LastMatch(NumericValue(value), RECOMMENDATION_THRESHOLDS)

categorize_recommendation(value) ==
    IF ~IsIntOrFloat(value) \/ IsNa(value)
    THEN "unknown"
    ELSE FirstMatch(NumericValue(value), RECOMMENDATION_THRESHOLDS)

-----------------------------------------------------------------------------
(* The upstream response (requests.post, raise_for_status, response.json)  *)

\* A JSON object is its set of keys plus the value under "data"; an element
\* of data is its set of keys plus the value array under "d".
JsonBody(keys, data) == [keys |-> keys, data |-> data]

Element(d) == [keys |-> {"s", "d"}, d |-> d]

ElementWithoutD == [keys |-> {"s"}, d |-> <<>>]

Response(kind, body) == [kind |-> kind, body |-> body]

\* requests.Timeout, requests.ConnectionError, the HTTPError of
\* raise_for_status and the JSONDecodeError of response.json() are all
\* requests.RequestException.
RequestFailures == {"timeout", "connection_error", "http_error", "bad_json"}

Raise(type, message) == [raised |-> TRUE, type |-> type, message |-> message]

NoError == [raised |-> FALSE, type |-> "", message |-> <<>>]

-----------------------------------------------------------------------------
(* main.py: fetch_trading_data, lines 79-90 (normalisation)                *)

\* "d" in row
HasD(row) == "d" \in row.keys

\* row["d"] for each row kept
Arrays(kept) == [i \in 1..Len(kept) |-> kept[i].d]

\* Keeps every element, with or without "d".
ExtractRowsUnfiltered(api_data) == Arrays(api_data)

\* rows = [row["d"] for row in api_data if "d" in row]
ExtractRows(api_data) == Arrays(SelectSeq(api_data, HasD))

\* if not rows: raise
CheckRows(rows) ==
    IF rows = <<>>
    THEN [error |-> Raise("TradingDataError", <<"No valid data rows found">>),
          rows |-> <<>>]
    ELSE [error |-> NoError, rows |-> rows]

Normalize(data) ==
    IF data.keys = {} \/ "data" \notin data.keys
    THEN [error |-> Raise("TradingDataError", <<"Invalid response format from API">>),
          rows |-> <<>>]
    ELSE IF data.data = <<>>
    THEN [error |-> Raise("TradingDataError", <<"No data returned from API">>),
          rows |-> <<>>]
    ELSE CheckRows(ExtractRows(data.data))

-----------------------------------------------------------------------------
(* main.py: fetch_trading_data, lines 92-97 (DataFrame and category)       *)

MaxOf(S) == CHOOSE m \in S : \A n \in S : n <= m

\* The longest list of a list of lists.
Longest(rows) == MaxOf({Len(rows[r]) : r \in 1..Len(rows)})

Pad(row, width) ==
    [i \in 1..width |-> IF i <= Len(row) THEN row[i] ELSE None]

NoFrame(error) == [error |-> error, columns |-> <<>>, rows |-> <<>>]

Frame(columns, rows) == [error |-> NoError, columns |-> columns, rows |-> rows]

\* The object array is as wide as the longest list, shorter lists padded with
\* None; a width other than the number of columns raises ValueError
\* ("N columns passed, passed data had M columns").
FrameOfWidth(rows, columns, width) ==
    IF width # Len(columns)
    THEN NoFrame(Raise("ValueError", <<"columns passed, passed data had columns">>))
    ELSE Frame(columns, [r \in 1..Len(rows) |-> Pad(rows[r], width)])

\* Pads every list to the number of columns and never raises.
DataFrameLenient(rows, columns) ==
    Frame(columns, [r \in 1..Len(rows) |-> Pad(rows[r], Len(columns))])

\* pd.DataFrame(rows, columns=columns) for a list of lists
DataFrame(rows, columns) == FrameOfWidth(rows, columns, Longest(rows))

\* The new column holds categorize_recommendation of the cell at idx.
WithCategory(df, idx) ==
    Frame(Append(df.columns, CategoryColumn),
          [r \in 1..Len(df.rows) |->
              Append(df.rows[r], Str(categorize_recommendation(df.rows[r][idx])))])

\* df["recommendation_category"] = df["Recommend.All"].apply(categorize_recommendation)
AddCategory(df) == WithCategory(df, ColumnIndex(df.columns, RecommendAll))

Dataset(reached, error, df) ==
    [stage |-> reached, error |-> error, columns |-> df.columns, rows |-> df.rows]

Categorized(df) ==
    IF df.error.raised
    THEN Dataset("build", df.error, NoFrame(df.error))
    ELSE Dataset("done", NoError, AddCategory(df))

Normalized(n) ==
    IF n.error.raised
    THEN Dataset("shape", n.error, NoFrame(n.error))
    ELSE Categorized(DataFrame(n.rows, COLUMNS))

\* Lines 79-97 as one function of the decoded body.
BuildDataset(data) == Normalized(Normalize(data))

-----------------------------------------------------------------------------
(* The CSV file: df.to_csv(path, index=False) and pd.read_csv(path)        *)

NoFile == [exists |-> FALSE, header |-> <<>>, lines |-> <<>>]

Empty == <<"empty", 0>>

\* None and NaN are written as the empty field.
to_csv(df) ==
    [exists |-> TRUE,
     header |-> df.columns,
     lines |-> [r \in 1..Len(df.rows) |->
                   [i \in 1..Len(df.rows[r]) |->
                       IF IsNa(df.rows[r][i]) THEN Empty ELSE df.rows[r][i]]]]

\* The empty field is read as NaN.
read_csv(file) ==
    [columns |-> file.header,
     rows |-> [r \in 1..Len(file.lines) |->
                  [i \in 1..Len(file.lines[r]) |->
                      IF file.lines[r][i] = Empty THEN NaN ELSE file.lines[r][i]]]]

-----------------------------------------------------------------------------
(* main.py: setup_temp_directory and fetch_trading_data                    *)

\* TEMP_DIR.mkdir(exist_ok=True)
setup_temp_directory(dir) == TRUE

\* What fetch_trading_data leaves behind and hands back.
FetchOutcome(error, reached, fs, dir, posts, path) ==
    [error |-> error, stage |-> reached, files |-> fs, dirExists |-> dir,
     requests |-> posts, path |-> path]

\* The except clauses of lines 107-112, first match first: a TradingDataError
\* raised inside the try is caught by "except Exception".
Wrap(error) ==
    IF error.type = "RequestException"
    THEN Raise("TradingDataError", <<"API request failed">> \o error.message)
    ELSE IF error.type \in {"KeyError", "ValueError", "ParserError"}
    THEN Raise("TradingDataError", <<"Data processing failed">> \o error.message)
    ELSE Raise("TradingDataError", <<"Unexpected error">> \o error.message)

\* Lines 99-105: the file <output_file>.csv is (re)written once the dataset
\* has been built.  disk_ok = FALSE is mkdir or the opening of the file
\* raising OSError.
Save(b, disk_ok, output_file, fs, dir) ==
    IF b.error.raised
    THEN FetchOutcome(Wrap(b.error), b.stage, fs, dir, 1, output_file)
    ELSE IF ~disk_ok
    THEN FetchOutcome(Wrap(Raise("OSError", <<"Permission denied">>)),
                      "cache", fs, dir, 1, output_file)
    ELSE FetchOutcome(NoError, "done", [fs EXCEPT ![output_file] = to_csv(b)],
                      setup_temp_directory(dir), 1, output_file)

\* Posts again after a failed request.
fetch_trading_data_retry(response, disk_ok, output_file, fs, dir) ==
    IF response.kind \in RequestFailures
    THEN FetchOutcome(Wrap(Raise("RequestException", <<response.kind>>)),
                      "upstream", fs, dir, 2, output_file)
    ELSE Save(BuildDataset(response.body), disk_ok, output_file, fs, dir)

\* Creates TEMP_DIR before the request is sent.
fetch_trading_data_mkdir_first(response, disk_ok, output_file, fs, dir) ==
    IF response.kind \in RequestFailures
    THEN FetchOutcome(Wrap(Raise("RequestException", <<response.kind>>)),
                      "upstream", fs, setup_temp_directory(dir), 1, output_file)
    ELSE Save(BuildDataset(response.body), disk_ok, output_file, fs,
              setup_temp_directory(dir))

\* One requests.post per call, whatever is already in TEMP_DIR.
fetch_trading_data(response, disk_ok, output_file, fs, dir) ==
    IF response.kind \in RequestFailures
    THEN FetchOutcome(Wrap(Raise("RequestException", <<response.kind>>)),
                      "upstream", fs, dir, 1, output_file)
    ELSE Save(BuildDataset(response.body), disk_ok, output_file, fs, dir)

-----------------------------------------------------------------------------
(* main.py: load_and_filter_stocks                                         *)

RECURSIVE Select(_, _, _)
\* The rows whose cell at idx is the wanted one, in order.
Select(rows, idx, wanted) ==
    IF rows = <<>> THEN <<>>
    ELSE IF Head(rows)[idx] = wanted
    THEN <<Head(rows)>> \o Select(Tail(rows), idx, wanted)
    ELSE Select(Tail(rows), idx, wanted)

RECURSIVE Reject(_, _, _)
Reject(rows, idx, unwanted) ==
    IF rows = <<>> THEN <<>>
    ELSE IF Head(rows)[idx] # unwanted
    THEN <<Head(rows)>> \o Reject(Tail(rows), idx, unwanted)
    ELSE Reject(Tail(rows), idx, unwanted)

\* Keeps the rows of every other category.
FilterRowsInverted(df, tech_sig) ==
    Reject(df.rows, ColumnIndex(df.columns, CategoryColumn), Str(tech_sig))

\* df[df["recommendation_category"] == tech_sig]
FilterRows(df, tech_sig) ==
    Select(df.rows, ColumnIndex(df.columns, CategoryColumn), Str(tech_sig))

\* filtered_df.to_dict(orient="records"): every column of every kept row.
LoadOutcome(error, columns, records) ==
    [error |-> error, columns |-> columns, records |-> records]

Loaded(df, tech_sig) ==
    IF ColumnIndex(df.columns, CategoryColumn) = 0
    THEN LoadOutcome(Raise("TradingDataError",
                           <<"Failed to load and filter data",
                             "Missing recommendation_category column">>),
                     <<>>, <<>>)
    ELSE LoadOutcome(NoError, df.columns, FilterRows(df, tech_sig))

load_and_filter_stocks(fs, csv_path, tech_sig) ==
    IF ~fs[csv_path].exists
    THEN LoadOutcome(Raise("TradingDataError",
                           <<"Failed to load and filter data", "Data file not found">>),
                     <<>>, <<>>)
    ELSE Loaded(read_csv(fs[csv_path]), tech_sig)

-----------------------------------------------------------------------------
(* main.py: the two tools                                                  *)

\* What a tool call returns.  kind is "records" (a list of dicts), "message"
\* (the "No stocks found" string), "summary" (a dict of counts), "error" (an
\* "Unable to ..." string) or "exception" (nothing returned: an exception
\* left the tool).
Return(op, kind, date, tech_sig, columns, records, summary, message) ==
    [op |-> op, kind |-> kind, date |-> date, tech_sig |-> tech_sig,
     columns |-> columns, records |-> records, summary |-> summary,
     message |-> message]

NoResult == Return("none", "none", "", "", <<>>, <<>>, {}, <<>>)

ToolOutcome(f, reached, ret) ==
    [files |-> f.files, dirExists |-> f.dirExists, requests |-> f.requests,
     stage |-> reached, result |-> ret]

\* Lines 175-180 and the except clauses of get_stocks, l being what
\* load_and_filter_stocks did.
StocksLoaded(tech_sig, f, l) ==
    IF l.error.raised
    THEN ToolOutcome(f, "load",
             Return("get_stocks", "error", f.path, "", <<>>, <<>>, {},
                    <<"Unable to fetch stocks">> \o l.error.message))
    ELSE IF l.records = <<>>
    THEN ToolOutcome(f, "done",
             Return("get_stocks", "message", f.path, tech_sig, <<>>, <<>>, {},
                    <<"No stocks found with signal for today">>))
    ELSE ToolOutcome(f, "done",
             Return("get_stocks", "records", f.path, tech_sig,
                    l.columns, l.records, {}, <<>>))

\* Lets the TradingDataError of fetch_trading_data leave the tool.
get_stocks_propagating(tech_sig, f) ==
    IF f.error.raised
    THEN ToolOutcome(f, f.stage,
             Return("get_stocks", "exception", f.path, "", <<>>, <<>>, {},
                    f.error.message))
    ELSE StocksLoaded(tech_sig, f, load_and_filter_stocks(f.files, f.path, tech_sig))

\* get_stocks from line 173 on, f being what fetch_trading_data(output_file)
\* did at line 172.
get_stocks(tech_sig, f) ==
    IF f.error.raised
    THEN ToolOutcome(f, f.stage,
             Return("get_stocks", "error", f.path, "", <<>>, <<>>, {},
                    <<"Unable to fetch stocks">> \o f.error.message))
    ELSE StocksLoaded(tech_sig, f, load_and_filter_stocks(f.files, f.path, tech_sig))

\* The values present in the column, NaN left out.
Present(cells) == {cells[i] : i \in 1..Len(cells)} \ {NaN}

Occurrences(cells, c) == Cardinality({i \in 1..Len(cells) : cells[i] = c})

\* Gives every value present the size of the column.
value_counts_size(cells) == {<<c[2], Len(cells)>> : c \in Present(cells)}

\* Series.value_counts().to_dict(): the values present, each with the number
\* of rows holding it.
value_counts(cells) == {<<c[2], Occurrences(cells, c)>> : c \in Present(cells)}

\* df["recommendation_category"]
Column(df, idx) == [r \in 1..Len(df.rows) |-> df.rows[r][idx]]

\* Line 203, df being the file as read and idx the place of the column.
Summarized(f, df, idx) ==
    IF idx = 0
    THEN ToolOutcome(f, "load",
             Return("get_recommendation_summary", "error", f.path, "", <<>>, <<>>, {},
                    <<"Unable to get recommendation summary", "KeyError",
                      "recommendation_category">>))
    ELSE ToolOutcome(f, "done",
             Return("get_recommendation_summary", "summary", f.path, "", <<>>, <<>>,
                    value_counts(Column(df, idx)), <<>>))

SummaryLoaded(f, df) == Summarized(f, df, ColumnIndex(df.columns, CategoryColumn))

\* Lines 200-209, f being what fetch_trading_data did.
SummaryFetched(f) ==
    IF f.error.raised
    THEN ToolOutcome(f, f.stage,
             Return("get_recommendation_summary", "error", f.path, "", <<>>, <<>>, {},
                    <<"Unable to get recommendation summary">> \o f.error.message))
    ELSE SummaryLoaded(f, read_csv(f.files[f.path]))

get_recommendation_summary(response, disk_ok, output_file, fs, dir) ==
    SummaryFetched(fetch_trading_data(response, disk_ok, output_file, fs, dir))

-----------------------------------------------------------------------------
(* Bounds and the inputs drawn from them                                   *)

\* Elements of "data" in a body handed to the normalisation on its own.
MaxBuildRows == 2

\* Elements of "data" in one response, within a single day.
MaxDayRows == 1

\* Elements of "data" in one response, when the date may change.
MaxCacheRows == 1

\* Largest |score|, in hundredths, handed to categorize_recommendation.
MaxScore == 120

\* The dates datetime.now() runs through, as strftime("%Y-%m-%d") gives them.
Days == <<"2025-06-02", "2025-06-03">>

Dates == {Days[d] : d \in 1..Len(Days)}

strftime(day) == Days[day]

Tickers == <<"RELIANCE", "TCS", "INFY", "HDFCBANK", "ITC", "SBIN">>

\* The scores of the four-record example: 0.3, -0.2, 0.6 and null.
Scores == <<Num(30), Num(-20), Num(60), None>>

\* A value array of the given length: the ticker first, the score under
\* Recommend.All, and the column's own position everywhere else.
MkRow(len, pos, score) ==
    [i \in 1..len |->
        IF i = 1 THEN Str(Tickers[pos])
        ELSE IF i = NumCols THEN score
        ELSE Num(i)]

\* A full value array with each score.
FullArrays(pos) == {Element(MkRow(NumCols, pos, Scores[s])) : s \in 1..Len(Scores)}

\* An array one longer than COLUMNS.
LongArray(pos) == Element(MkRow(NumCols + 1, pos, Num(30)))

\* An array one shorter than COLUMNS.
ShortArray(pos) == Element(MkRow(NumCols - 1, pos, Num(30)))

\* The elements a response may hold at position pos.
Elements(pos) ==
    FullArrays(pos) \cup {ShortArray(pos), LongArray(pos), ElementWithoutD}

\* Fewer of them: a full array with either of two scores, the long array and
\* the element without "d".
CacheElements(pos) ==
    {Element(MkRow(NumCols, pos, Scores[s])) : s \in {1, 2}}
        \cup {LongArray(pos), ElementWithoutD}

RECURSIVE DataLists(_, _)
\* The lists of at most n elements, the element at position pos drawn from
\* Elements(pos) (rich) or CacheElements(pos).
DataLists(n, rich) ==
    IF n = 0 THEN {<<>>}
    ELSE LET shorter == DataLists(n - 1, rich)
         IN  shorter \cup
                 {Append(d, e) : d \in {s \in shorter : Len(s) = n - 1},
                                 e \in IF rich THEN Elements(n) ELSE CacheElements(n)}

\* {"data": [{"d": [.., 0.3]}, {"d": [.., -0.2]}, {"d": [.., 0.6]}, {"d": [.., null]}]}
ExampleData ==
    [pos \in 1..Len(Scores) |-> Element(MkRow(NumCols, pos, Scores[pos]))]

BodiesOf(lists) ==
    {JsonBody({}, <<>>), JsonBody({"totalCount"}, <<>>)}
        \cup {JsonBody({"totalCount", "data"}, d) : d \in lists}

ResponsesOf(bodies) ==
    {Response(k, JsonBody({}, <<>>)) : k \in RequestFailures}
        \cup {Response("json", b) : b \in bodies}

BuildInputs == BodiesOf(DataLists(MaxBuildRows, TRUE) \cup {ExampleData})

DayResponses == ResponsesOf(BodiesOf(DataLists(MaxDayRows, TRUE) \cup {ExampleData}))

CacheResponses == ResponsesOf(BodiesOf(DataLists(MaxCacheRows, FALSE)))

CellValues ==
    {Num(v) : v \in -MaxScore..MaxScore}
        \cup {Num(200), Num(-200), None, NaN, Str("not a number"), Bool(0), Bool(1)}

-----------------------------------------------------------------------------
(* The server: tool calls one at a time, and the calendar                  *)

Init ==
    /\ today = 1
    /\ dirExists = FALSE
    /\ files = [d \in Dates |-> NoFile]
    /\ stage = "idle"
    /\ requests = 0
    /\ result = NoResult
    /\ input = "none"
    /\ output = "none"

Apply(o) ==
    /\ files' = o.files
    /\ dirExists' = o.dirExists
    /\ requests' = o.requests
    /\ stage' = o.stage
    /\ result' = o.result
    /\ UNCHANGED <<today, input, output>>

\* The rest of get_stocks for each signal a caller may ask for.
GetStocksAfter(f) == \E tech_sig \in TechSigs : Apply(get_stocks(tech_sig, f))

\* output_file = datetime.now().strftime("%Y-%m-%d"); fetch_trading_data(output_file)
GetStocks(responses) ==
    \E response \in responses, disk_ok \in BOOLEAN :
        GetStocksAfter(fetch_trading_data(response, disk_ok, strftime(today),
                                          files, dirExists))

GetRecommendationSummary(responses) ==
    \E response \in responses, disk_ok \in BOOLEAN :
        Apply(get_recommendation_summary(response, disk_ok, strftime(today),
                                         files, dirExists))

\* The local date moves on between two calls.
Midnight ==
    /\ today < Len(Days)
    /\ today' = today + 1
    /\ UNCHANGED <<dirExists, files, stage, requests, result, input, output>>

Next ==
    \/ GetStocks(CacheResponses)
    \/ GetRecommendationSummary(CacheResponses)
    \/ Midnight

Spec == Init /\ [][Next]_vars

\* One day of calls, with larger responses.
NextDay ==
    \/ GetStocks(DayResponses)
    \/ GetRecommendationSummary(DayResponses)

SpecDay == Init /\ [][NextDay]_vars

-----------------------------------------------------------------------------
(* categorize_recommendation on its own                                    *)

Idle ==
    /\ today = 1
    /\ dirExists = FALSE
    /\ files = [d \in Dates |-> NoFile]
    /\ stage = "idle"
    /\ requests = 0
    /\ result = NoResult

InitCategorize ==
    /\ Idle
    /\ input \in CellValues
    /\ output = "pending"

Categorize ==
    /\ output = "pending"
    /\ output' = categorize_recommendation(input)
    /\ UNCHANGED <<today, dirExists, files, stage, requests, result, input>>

NextCategorize == Categorize

SpecCategorize == InitCategorize /\ [][NextCategorize]_vars

-----------------------------------------------------------------------------
(* Lines 79-97 of fetch_trading_data on their own                          *)

Pending == [normalized |-> [error |-> NoError, rows |-> <<>>],
            dataset |-> [stage |-> "pending", error |-> NoError,
                         columns |-> <<>>, rows |-> <<>>]]

InitBuild ==
    /\ Idle
    /\ input \in BuildInputs
    /\ output = Pending

Build ==
    /\ output = Pending
    /\ output' = [normalized |-> Normalize(input), dataset |-> BuildDataset(input)]
    /\ UNCHANGED <<today, dirExists, files, stage, requests, result, input>>

NextBuild == Build

SpecBuild == InitBuild /\ [][NextBuild]_vars

-----------------------------------------------------------------------------
(* Properties                                                              *)

\* C1: on one calendar date the build function runs at most once: a tool call
\* that finds the date's cache file in place issues no upstream request.
\* (A step that keeps the date and changes the state is a tool call.)
C1_BuildAtMostOncePerDate ==
    [][(today' = today /\ files[strftime(today)].exists) => requests' = 0]_vars

\* C2: a persisted snapshot is immutable: no step changes the contents of a
\* cache file that exists.
C2_SnapshotImmutable ==
    [][\A d \in Dates : files[d].exists => files'[d] = files[d]]_vars

\* The threshold table of the specification, each boundary owned by the band
\* below it.  A bool is the number Python takes it for.
Canonical(value) ==
    IF Kind(value) \in {"none", "nan", "str"}
    THEN "unknown"
    ELSE LET v == NumericValue(value)
         IN  CASE -100 <= v /\ v <= -50 -> "strong_sell"
               [] -50 < v /\ v <= -10   -> "sell"
               [] -10 < v /\ v <= 10    -> "neutral"
               [] 10 < v /\ v <= 50     -> "buy"
               [] 50 < v /\ v <= 100    -> "strong_buy"
               [] OTHER                 -> "unknown"

\* C3: categorize_recommendation returns, for every input, the category of the
\* canonical threshold table: -0.5 is strong_sell, -0.1 is sell, 0.1 is
\* neutral, 0.5 is buy, and a missing, non-numeric or out-of-range value is
\* unknown.
C3_CanonicalTable ==
    output # "pending" =>
        /\ output = Canonical(input)
        /\ output \in Categories
        /\ input = Num(-50) => output = "strong_sell"
        /\ input = Num(-10) => output = "sell"
        /\ input = Num(10) => output = "neutral"
        /\ input = Num(50) => output = "buy"
        /\ input \in {None, NaN, Str("not a number"), Num(200)} => output = "unknown"

C3_Witness == input = Num(-50) /\ output = "strong_sell"

\* The snapshot a tool call answered from: the date's file as read_csv loads it.
Snapshot == read_csv(files[result.date])

CategoryOf(row) == row[NumCols + 1]

Matching(rows, c) ==
    LET OfCategory(row) == CategoryOf(row) = Str(c)
    IN  SelectSeq(rows, OfCategory)

CountOf(c) ==
    Cardinality({r \in 1..Len(Snapshot.rows) : CategoryOf(Snapshot.rows[r]) = Str(c)})

CategoryOrder == <<"strong_sell", "sell", "neutral", "buy", "strong_buy", "unknown">>

RECURSIVE SumOfCounts(_, _)
SumOfCounts(summary, n) ==
    IF n = 0 THEN 0
    ELSE LET here == {p \in summary : p[1] = CategoryOrder[n]}
         IN  (IF here = {} THEN 0 ELSE (CHOOSE p \in here : TRUE)[2])
                 + SumOfCounts(summary, n - 1)

RECURSIVE ArraysInOrder(_)
ArraysInOrder(api_data) ==
    IF api_data = <<>> THEN <<>>
    ELSE IF "d" \in Head(api_data).keys
    THEN <<Head(api_data).d>> \o ArraysInOrder(Tail(api_data))
    ELSE ArraysInOrder(Tail(api_data))

NoUsableRow(data) ==
    \/ "data" \notin data.keys
    \/ data.data = <<>>
    \/ \A i \in 1..Len(data.data) : "d" \notin data.data[i].keys

\* C6: normalisation fails, and no dataset is produced, when the body has no
\* data key, an empty data list or no element with a d field; otherwise the
\* elements without d are dropped and the other value arrays kept in order.
C6_ShapeErrors ==
    output # Pending =>
        IF NoUsableRow(input)
        THEN /\ output.normalized.error.raised
             /\ output.normalized.error.type = "TradingDataError"
             /\ output.normalized.rows = <<>>
             /\ output.dataset.stage = "shape"
             /\ output.dataset.rows = <<>>
        ELSE /\ ~output.normalized.error.raised
             /\ output.normalized.rows = ArraysInOrder(input.data)
             /\ output.dataset.stage # "shape"

C6_Witness ==
    /\ output # Pending
    /\ Len(input.data) = 2
    /\ "d" \notin input.data[1].keys
    /\ output.normalized.rows = <<input.data[2].d>>

Aligned(rows, dataset) ==
    /\ dataset.stage = "done"
    /\ dataset.columns = Append(COLUMNS, CategoryColumn)
    /\ Len(dataset.rows) = Len(rows)
    /\ \A r \in 1..Len(rows) :
           /\ Len(dataset.rows[r]) = NumCols + 1
           /\ \A i \in 1..NumCols :
                  dataset.rows[r][i] = IF i <= Len(rows[r]) THEN rows[r][i] ELSE None

\* C8 as stated: every value array no longer than the column count is
\* accepted, and the dataset has the declared columns in order, value i under
\* column i, trailing nulls for a short array, records in input order.
C8_ShortAccepted ==
    (output # Pending /\ ~output.normalized.error.raised
        /\ Longest(output.normalized.rows) <= NumCols)
    => Aligned(output.normalized.rows, output.dataset)

\* C8, amended: when the longest value array of the response has exactly as
\* many values as COLUMNS, the dataset has the declared columns in order
\* (followed by recommendation_category), value i under column i, None in the
\* trailing columns of a shorter array, records in input order; when the
\* longest array is shorter or longer than COLUMNS the build fails and there
\* is no dataset.
C8_ColumnAlignment ==
    (output # Pending /\ ~output.normalized.error.raised) =>
        IF Longest(output.normalized.rows) = NumCols
        THEN Aligned(output.normalized.rows, output.dataset)
        ELSE /\ output.dataset.stage = "build"
             /\ output.dataset.error.type = "ValueError"
             /\ output.dataset.rows = <<>>

C8_Witness ==
    /\ output # Pending
    /\ output.dataset.stage = "done"
    /\ Len(output.normalized.rows) = 2
    /\ Len(output.normalized.rows[2]) = NumCols - 1
    /\ output.dataset.rows[2][NumCols] = None
    /\ output.dataset.rows[2][NumCols - 1] = Num(NumCols - 1)

\* C7: a tool call issues at most one upstream request, and a request that
\* times out, fails in transport, gets a non-2xx status or an undecodable body
\* ends the call with an upstream error after that one attempt.
C7_SingleAttempt ==
    /\ requests <= 1
    /\ stage # "idle" => requests = 1
    /\ stage = "upstream" =>
           /\ result.kind = "error"
           /\ result.message[2] = "API request failed"
           /\ result.message[3] \in RequestFailures

C7_Witness ==
    /\ stage = "upstream"
    /\ requests = 1
    /\ result.message[3] = "timeout"

UnableTo == {"Unable to fetch stocks", "Unable to get recommendation summary"}

\* C9: when the upstream, shape, build or cache layer fails, the tool returns
\* one "Unable to ..." error string carrying the cause, no records, no counts,
\* and no exception leaves the tool.
C9_ErrorsCollapse ==
    /\ result.kind # "exception"
    /\ stage \in {"upstream", "shape", "build", "cache", "load"} =>
           /\ result.kind = "error"
           /\ result.message[1] \in UnableTo
           /\ Len(result.message) >= 3
           /\ result.records = <<>>
           /\ result.summary = {}
    /\ result.kind = "error" => stage \notin {"idle", "done"}

C9_Witness ==
    /\ stage = "cache"
    /\ result.op = "get_stocks"
    /\ result.kind = "error"
    /\ result.message = <<"Unable to fetch stocks", "Unexpected error", "Permission denied">>

\* C10: a tool call that fails while fetching, normalising or building leaves
\* TEMP_DIR and every cache file, of this date and of the others, as they
\* were.
C10_FailureLeavesCache ==
    [][stage' \in {"upstream", "shape", "build"} =>
           (files' = files /\ dirExists' = dirExists)]_vars

C10_Witness ==
    /\ stage \in {"upstream", "shape", "build"}
    /\ result.date = strftime(today)
    /\ \A d \in Dates : files[d].exists

=============================================================================
